---- MODULE Spec2Model ----
(***************************************************************************)
(* A model of metno/__init__.py: the MetWeatherData client (fetching_data, *)
(* get_current_weather, get_forecast, get_weather), the module functions   *)
(* get_value, get_data and parse_datetime, and the AirQualityData client   *)
(* (update).                                                               *)
(*                                                                         *)
(* Conventions.  Python's None is the empty tuple and a present value v is *)
(* the one-element tuple <<v>>.  A call's outcome is a record whose field  *)
(* exc names the exception that escapes the call ("none" when it returns). *)
(* Datetimes are seconds on one UTC time line.  A float is an integer      *)
(* number of thousandths; a value rounded to one decimal is an integer     *)
(* number of tenths.                                                       *)
(***************************************************************************)
EXTENDS Integers, Sequences, FiniteSets, TLC

VARIABLES
    served,      \* the service: the <time> list of the forecast it now serves
    data,        \* MetWeatherData.data: None, or <<document>>
    lastGood,    \* history: the document of the last fetch that returned True
    ret,         \* the last MetWeatherData / module-function call and its outcome
    aq_served,   \* the service: the time list of the air-quality forecast it serves
    aq_forecast, \* AirQualityData._forecast: hours ahead of now
    aq_data,     \* AirQualityData._data: the last JSON document received
    aq_last,     \* AirQualityData._last_update
    aq_out,      \* AirQualityData.data: the values published by update()
    aq_ret       \* the last update() call (with its clock reading) and its outcome

vars == <<served, data, lastGood, ret,
         aq_served, aq_forecast, aq_data, aq_last, aq_out, aq_ret>>
wvars == <<served, data, lastGood, ret>>
avars == <<aq_served, aq_forecast, aq_data, aq_last, aq_out, aq_ret>>

-----------------------------------------------------------------------------
(* Bounds of the model. *)

\* A weather document holds at most MaxEntries <time> elements.
MaxEntries == 2
\* Targets and clock readings of the weather calls are the stamps 0..MaxTick.
MaxTick == 2
\* An air-quality document holds at most AqMaxEntries time elements.
AqMaxEntries == 2
\* Clock readings of the air-quality calls are the stamps 0..AqMaxTick.
AqMaxTick == 2

-----------------------------------------------------------------------------
(* Program constants and the time grid. *)

HourSecs == 3600
DefaultMaxHour == 6
ErrorStatus == 400
AqInitialHours == 24
DaySecs == 24 * HourSecs

\* Weather stamp k is 18:00 + 3h * k of day 0, so that midnight falls on the grid.
StepSecs == 3 * HourSecs
BaseSecs == 18 * HourSecs
\* Air-quality stamp k is 8h * k.
AqStepSecs == 8 * HourSecs

None == <<>>
Some(v) == <<v>>
NoExc == "none"

Abs(x) == IF x < 0 THEN -x ELSE x

\* datetime.date(): the calendar day of an instant.
DateOf(secs) == secs \div DaySecs

\* parse_datetime: the stamp text of a document to an aware datetime.  The text
\* is modelled by its index on the weather grid.
parse_datetime(stamp) == BaseSecs + stamp * StepSecs

\* parse_datetime on the stamps of an air-quality document.
aq_parse_datetime(stamp) == stamp * AqStepSecs

-----------------------------------------------------------------------------
(* float(), int() and round(): what get_value and get_data compute with. *)

NumericText ==
    {"5.0", "8.0", "-2.5", "10.0", "1.25", "0.5", "1013.2", "80.0", "180.0",
     "3", "20", "99"}

\* float(text) in thousandths; text outside NumericText raises ValueError.
FloatOf(text) ==
    CASE text = "5.0"    -> 5000
      [] text = "8.0"    -> 8000
      [] text = "-2.5"   -> -2500
      [] text = "10.0"   -> 10000
      [] text = "1.25"   -> 1250
      [] text = "0.5"    -> 500
      [] text = "1013.2" -> 1013200
      [] text = "80.0"   -> 80000
      [] text = "180.0"  -> 180000
      [] text = "3"      -> 3000
      [] text = "20"     -> 20000
      [] text = "99"     -> 99000

\* round(x, 1): thousandths to tenths, a tie going to the even digit.
Round1(x) ==
    LET q == x \div 100
        r == x % 100
    IN  IF r < 50 THEN q
        ELSE IF r > 50 THEN q + 1
        ELSE IF q % 2 = 0 THEN q ELSE q + 1

\* x * 3.6, in thousandths (exact on the modelled texts).
TimesMps(x) == (x * 36) \div 10

\* int(x): truncation toward zero.
IntOf(x) == IF x >= 0 THEN x \div 1000 ELSE -((-x) \div 1000)

\* CONDITIONS.get(code): the label of a symbol code, None for an unknown code
\* and for None.
CONDITIONS(code) ==
    IF code = None THEN None
    ELSE LET c == code[1] IN
        CASE c = 1 -> Some("sunny")
          [] c \in {2, 3} -> Some("partlycloudy")
          [] c = 4 -> Some("cloudy")
          [] c \in {5, 9, 10, 40, 41, 46} -> Some("rainy")
          [] c \in {6, 11} \cup (20..34) -> Some("lightning-rainy")
          [] c \in {7, 12, 42, 43, 47, 48} -> Some("snowy-rainy")
          [] c \in {8, 13, 14, 44, 45, 49, 50} -> Some("snowy")
          [] c = 15 -> Some("fog")
          [] OTHER -> None

-----------------------------------------------------------------------------
(* get_value and get_data. *)

Returned(v) == [exc |-> NoExc, val |-> v]
Raised(e) == [exc |-> e, val |-> None]

\* xmltodict gives None for an element without attributes and a mapping from
\* "@attribute" to text otherwise, so an element is None iff it maps nothing.
IsNone(x) == DOMAIN x = {}

\* The exceptions get_value and get_data catch.
Caught == {"ValueError", "IndexError", "KeyError"}

\* data[value], then float(): the exception raised, or the float.
AttributeFloat(elem, value) ==
    IF IsNone(elem) THEN Raised("TypeError")
    ELSE IF value \notin DOMAIN elem THEN Raised("KeyError")
    ELSE IF elem[value] \notin NumericText THEN Raised("ValueError")
    ELSE Returned(FloatOf(elem[value]))

\* try: ... except (ValueError, IndexError, KeyError): return None
Swallow(outcome) ==
    IF outcome.exc \in Caught THEN Returned(None) ELSE outcome

get_value(elem, value) ==
    LET f == AttributeFloat(elem, value)
    IN  Swallow(IF f.exc # NoExc THEN f
                ELSE IF value = "@mps" THEN Returned(Some(Round1(TimesMps(f.val))))
                ELSE Returned(Some(Round1(f.val))))

ValueParams ==
    {"temperature", "pressure", "humidity", "dewpointTemperature", "precipitation"}
MpsParams == {"windSpeed", "windGust"}
PercentParams == {"fog", "cloudiness", "lowClouds", "mediumClouds", "highClouds"}

\* The body of get_data's loop for an entry that holds param.
new_state(param, elem) ==
    IF param = "symbol" THEN
        LET f == AttributeFloat(elem, "@number")
        IN  IF f.exc # NoExc THEN f ELSE Returned(Some(IntOf(f.val)))
    ELSE IF param \in ValueParams THEN get_value(elem, "@value")
    ELSE IF param \in MpsParams THEN get_value(elem, "@mps")
    ELSE IF param = "windDirection" THEN get_value(elem, "@deg")
    ELSE IF param \in PercentParams THEN get_value(elem, "@percent")
    ELSE Raised("UnboundLocalError")

\* The index in data (a list of <<distance, time entry>>) of the first entry whose
\* location holds param, from position i on; 0 when there is none.
RECURSIVE FirstWith(_, _, _)
FirstWith(param, entries, i) ==
    IF i > Len(entries) THEN 0
    ELSE IF param \in DOMAIN entries[i][2].location THEN i
    ELSE FirstWith(param, entries, i + 1)

get_data(param, entries) ==
    LET i == FirstWith(param, entries, 1)
    IN  IF i = 0 THEN Returned(None)
        ELSE Swallow(new_state(param, entries[i][2].location[param]))

-----------------------------------------------------------------------------
(* MetWeatherData.get_weather. *)

\* The loop without its test for entries that have ended.
NeverPassed(time, valid_to) == FALSE

\* "if time > valid_to: continue"
HasPassed(time, valid_to) == time > valid_to

\* "if valid_from.date() == day or valid_to.date() == day"
OnDay(valid_from, valid_to, day) ==
    DateOf(valid_from) = day \/ DateOf(valid_to) = day

average_dist(valid_from, valid_to, time) ==
    Abs(valid_to - time) + Abs(valid_from - time)

\* The tolerance test turned around: it drops the entries within the tolerance.
TooNear(dist, max_hour) == dist < max_hour * HourSecs

\* "if average_dist > max_hour * 3600: continue"
TooFar(dist, max_hour) == dist > max_hour * HourSecs

\* The positions of K in ascending order: the order in which a loop over the list
\* meets them.
Ascending(K) ==
    [r \in 1..Cardinality(K) |-> CHOOSE x \in K : Cardinality({y \in K : y < x}) = r - 1]

\* The loop "for time_entry in self.data['product']['time']" is modelled list by
\* list: each list holds, in the order of the document, what the passes that reach
\* its append add to it.

\* The passes that get beyond "if time > valid_to: continue".
Considered(entries, time) ==
    {i \in 1..Len(entries) : ~HasPassed(time, parse_datetime(entries[i].to))}

\* The passes that enter "Collect all daily values" and find `field`:
\* "if field in time_entry['location']: list.append(get_value(..., attr))".
Collected(entries, time, field) ==
    {i \in Considered(entries, time) :
        /\ OnDay(parse_datetime(entries[i].from), parse_datetime(entries[i].to),
                 DateOf(time))
        /\ field \in DOMAIN entries[i].location}

\* The outcomes of the get_value calls of those passes.
DailyOutcomes(entries, time, field, attr) ==
    LET at == Ascending(Collected(entries, time, field))
    IN  [k \in DOMAIN at |-> get_value(entries[at[k]].location[field], attr)]

\* daily_temperatures, daily_precipitation, daily_windspeed and daily_windgust,
\* when no get_value call raises.
DailyList(entries, time, field, attr) ==
    LET outs == DailyOutcomes(entries, time, field, attr)
    IN  [k \in DOMAIN outs |-> outs[k].val]

\* ordered_entries before the sort: the passes that get beyond
\* "if average_dist > max_hour * 3600: continue".
Appended(entries, time, max_hour) ==
    LET dist(i) == average_dist(parse_datetime(entries[i].from),
                                parse_datetime(entries[i].to), time)
        at == Ascending({i \in Considered(entries, time) : ~TooFar(dist(i), max_hour)})
    IN  [k \in DOMAIN at |-> <<dist(at[k]), entries[at[k]]>>]

\* The exception of the first field evaluation that raises, in evaluation order.
RECURSIVE FirstExc(_, _)
FirstExc(outcomes, i) ==
    IF i > Len(outcomes) THEN NoExc
    ELSE IF outcomes[i].exc # NoExc THEN outcomes[i].exc
    ELSE FirstExc(outcomes, i + 1)

\* The exception that ends the loop: get_value lets only TypeError (an element
\* that is None) escape, so the order of the calls does not show in it.
ScanExc(entries, time) ==
    FirstExc(DailyOutcomes(entries, time, "temperature", "@value")
             \o DailyOutcomes(entries, time, "precipitation", "@value")
             \o DailyOutcomes(entries, time, "windSpeed", "@mps")
             \o DailyOutcomes(entries, time, "windGust", "@mps"), 1)

\* The locals of get_weather when its loop has ended.
Scan(entries, time, max_hour) ==
    [exc |-> ScanExc(entries, time),
     daily_temperatures |-> DailyList(entries, time, "temperature", "@value"),
     daily_precipitation |-> DailyList(entries, time, "precipitation", "@value"),
     daily_windspeed |-> DailyList(entries, time, "windSpeed", "@mps"),
     daily_windgust |-> DailyList(entries, time, "windGust", "@mps"),
     ordered_entries |-> Appended(entries, time, max_hour)]

\* The order of a sort that puts the later of two entries at the same distance
\* first.
SortsBeforeUnstable(list, i, j) ==
    \/ list[i][1] < list[j][1]
    \/ list[i][1] = list[j][1] /\ i > j

\* "item" goes before "other" in the sorted list: a smaller distance, or the same
\* distance and an earlier place in the list (list.sort is stable).
SortsBefore(list, i, j) ==
    \/ list[i][1] < list[j][1]
    \/ list[i][1] = list[j][1] /\ i < j

\* list.sort(key=lambda item: item[0])
SortEntries(list) ==
    [r \in 1..Len(list) |->
        list[CHOOSE i \in 1..Len(list) :
                Cardinality({j \in 1..Len(list) : SortsBefore(list, j, i)}) = r - 1]]

HasNone(list) == \E i \in 1..Len(list) : list[i] = None

RECURSIVE Extreme(_, _, _, _)
Extreme(list, i, best, sign) ==
    IF i > Len(list) THEN best
    ELSE Extreme(list, i + 1,
                 IF sign * list[i][1] > sign * best THEN list[i][1] ELSE best, sign)

\* max(list) and min(list) of a non-empty list: a single item is returned as it is,
\* and comparing None with anything raises TypeError.
PyMax(list) ==
    IF Len(list) = 1 THEN Returned(list[1])
    ELSE IF HasNone(list) THEN Raised("TypeError")
    ELSE Returned(Some(Extreme(list, 2, list[1][1], 1)))

PyMin(list) ==
    IF Len(list) = 1 THEN Returned(list[1])
    ELSE IF HasNone(list) THEN Raised("TypeError")
    ELSE Returned(Some(Extreme(list, 2, list[1][1], -1)))

RECURSIVE SumFrom(_, _)
SumFrom(list, i) == IF i > Len(list) THEN 0 ELSE list[i][1] + SumFrom(list, i + 1)

\* math.fsum(list): None among the items raises TypeError.
PyFsum(list) ==
    IF HasNone(list) THEN Raised("TypeError") ELSE Returned(Some(SumFrom(list, 1)))

\* "None if list == [] else max(list)", and so for min and math.fsum.
MaxOrNone(list) == IF list = <<>> THEN Returned(None) ELSE PyMax(list)
MinOrNone(list) == IF list = <<>> THEN Returned(None) ELSE PyMin(list)
SumOrNone(list) == IF list = <<>> THEN Returned(None) ELSE PyFsum(list)

\* The snapshot of hourly mode, from the sorted candidates.
HourlySnapshot(time, ordered) ==
    LET symbol == get_data("symbol", ordered)
        pressure == get_data("pressure", ordered)
        humidity == get_data("humidity", ordered)
        bearing == get_data("windDirection", ordered)
        temperature == get_data("temperature", ordered)
        precipitation == get_data("precipitation", ordered)
        speed == get_data("windSpeed", ordered)
        gust == get_data("windGust", ordered)
        cloudiness == get_data("cloudiness", ordered)
        exc == FirstExc(<<symbol, pressure, humidity, bearing, temperature,
                          precipitation, speed, gust, cloudiness>>, 1)
    IN  IF exc # NoExc THEN Raised(exc)
        ELSE Returned([datetime |-> time,
                       condition |-> CONDITIONS(symbol.val),
                       pressure |-> pressure.val,
                       humidity |-> humidity.val,
                       wind_bearing |-> bearing.val,
                       temperature |-> temperature.val,
                       precipitation |-> precipitation.val,
                       wind_speed |-> speed.val,
                       wind_gust |-> gust.val,
                       cloudiness |-> cloudiness.val])

\* The snapshot of daily mode, from the sorted candidates and the daily lists.
DailySnapshot(time, ordered, acc) ==
    LET symbol == get_data("symbol", ordered)
        pressure == get_data("pressure", ordered)
        humidity == get_data("humidity", ordered)
        bearing == get_data("windDirection", ordered)
        temperature == MaxOrNone(acc.daily_temperatures)
        templow == MinOrNone(acc.daily_temperatures)
        precipitation == SumOrNone(acc.daily_precipitation)
        speed == MaxOrNone(acc.daily_windspeed)
        gust == MaxOrNone(acc.daily_windgust)
        exc == FirstExc(<<symbol, pressure, humidity, bearing, temperature,
                          templow, precipitation, speed, gust>>, 1)
    IN  IF exc # NoExc THEN Raised(exc)
        ELSE Returned([datetime |-> time,
                       condition |-> CONDITIONS(symbol.val),
                       pressure |-> pressure.val,
                       humidity |-> humidity.val,
                       wind_bearing |-> bearing.val,
                       temperature |-> temperature.val,
                       templow |-> templow.val,
                       precipitation |-> precipitation.val,
                       wind_speed |-> speed.val,
                       wind_gust |-> gust.val])

\* get_weather from "res = dict()" on, with the sorted candidates.
AfterSort(time, hourly, acc, ordered) ==
    CHOOSE out \in
        {[exc |-> res.exc, val |-> IF res.exc = NoExc THEN res.val ELSE <<>>,
          ordered |-> ordered] :
            res \in {IF hourly THEN HourlySnapshot(time, ordered)
                     ELSE DailySnapshot(time, ordered, acc)}} : TRUE

\* get_weather from "if not ordered_entries" on, with the locals of the loop.
AfterLoop(time, hourly, acc) ==
    IF acc.exc # NoExc THEN [exc |-> acc.exc, val |-> <<>>, ordered |-> <<>>]
    ELSE IF acc.ordered_entries = <<>>
    THEN [exc |-> NoExc, val |-> <<>>, ordered |-> <<>>]
    ELSE CHOOSE out \in
            {AfterSort(time, hourly, acc, ordered) :
                ordered \in {SortEntries(acc.ordered_entries)}} : TRUE

\* get_weather(time, max_hour, hourly) on an instance whose data is self_data: the
\* outcome, with the candidate list (the local ordered_entries, after the sort)
\* beside it.  The empty snapshot {} is the empty tuple.  (The locals are bound
\* through one-element sets, which evaluates them once.)
get_weather(self_data, time, max_hour, hourly) ==
    IF self_data = None THEN [exc |-> NoExc, val |-> <<>>, ordered |-> <<>>]
    ELSE CHOOSE out \in
            {AfterLoop(time, hourly, acc) :
                acc \in {Scan(self_data[1].product.time, time, max_hour)}} : TRUE

-----------------------------------------------------------------------------
(* The documents the service may send. *)

\* The <location> of a point entry: instantaneous readings.
LocPoint ==
    ("temperature" :> (("@unit" :> "celsius") @@ ("@value" :> "5.0")))
    @@ ("pressure" :> ("@value" :> "1013.2"))
    @@ ("humidity" :> ("@value" :> "80.0"))
    @@ ("windDirection" :> ("@deg" :> "180.0"))
    @@ ("windSpeed" :> ("@mps" :> "10.0"))
    @@ ("windGust" :> ("@mps" :> "1.25"))
    @@ ("cloudiness" :> ("@percent" :> "80.0"))

\* The <location> of a period entry: precipitation, the weather symbol and a
\* temperature.
LocSpan ==
    ("precipitation" :> ("@value" :> "1.25"))
    @@ ("symbol" :> ("@number" :> "3"))
    @@ ("temperature" :> ("@value" :> "-2.5"))

\* Another period entry, with a wind speed too.
LocWarm ==
    ("temperature" :> ("@value" :> "8.0"))
    @@ ("precipitation" :> ("@value" :> "0.5"))
    @@ ("symbol" :> ("@number" :> "20"))
    @@ ("windSpeed" :> ("@mps" :> "5.0"))

\* A point entry with a non-numeric value and with missing attributes.
LocBad ==
    ("temperature" :> ("@value" :> "n/a"))
    @@ ("precipitation" :> ("@unit" :> "mm"))
    @@ ("windSpeed" :> ("@name" :> "calm"))
    @@ ("humidity" :> ("@value" :> "99"))

\* An entry with elements that carry no attribute (None after parsing).
LocNull ==
    ("temperature" :> None)
    @@ ("symbol" :> None)

\* An entry with an element get_data has no rule for.
LocExtra ==
    ("temperatureProbability" :> ("@value" :> "3"))
    @@ ("temperature" :> ("@value" :> "-2.5"))

Ticks == 0..MaxTick

\* The service's entries are of two kinds: an instant of the grid with readings,
\* and a period of one step with precipitation and the symbol.
PointLocations == {LocPoint, LocBad}
PeriodLocations == {LocSpan, LocWarm}

\* The stamps of the sample forecast: instants at 18:00 and 21:00, and the two
\* periods that end at 21:00 and at midnight.
PointStamps == {0, 1}
PeriodEnds == {1, 2}

TimeEntrySet ==
    {[from |-> k, to |-> k, location |-> loc] : k \in PointStamps, loc \in PointLocations}
    \cup {[from |-> k - 1, to |-> k, location |-> loc] :
              k \in PeriodEnds, loc \in PeriodLocations}

RECURSIVE SeqsUpTo(_, _)
SeqsUpTo(S, n) ==
    IF n = 0 THEN {<<>>}
    ELSE LET shorter == SeqsUpTo(S, n - 1)
         IN  shorter \cup {Append(q, x) : q \in {r \in shorter : Len(r) = n - 1}, x \in S}

TimeListSet == SeqsUpTo(TimeEntrySet, MaxEntries)

\* A response body: text that is not XML, or an XML document with its root tag.
\* The forecast is served as it is, or in its next issue, which has dropped the
\* oldest entry.
NextIssue(time_list) == IF time_list = <<>> THEN <<>> ELSE Tail(time_list)

BodySet(time_list) ==
    {[kind |-> "malformed", root |-> "", time |-> <<>>],
     [kind |-> "xml", root |-> "html", time |-> <<>>],
     [kind |-> "xml", root |-> "weatherdata", time |-> time_list],
     [kind |-> "xml", root |-> "weatherdata", time |-> NextIssue(time_list)]}

StatusSet == {200, 304, 404, 500}
TransportSet == {"response", "timeout", "client_error"}

\* xmltodict.parse(text): ExpatError, or the mapping from the root tag to its tree.
XmlParse(body) ==
    IF body.kind = "malformed" THEN Raised("ExpatError")
    ELSE Returned(body.root :> [product |-> [time |-> body.time]])

-----------------------------------------------------------------------------
(* MetWeatherData.fetching_data. *)

\* "if resp.status >= 400: return False"
BadStatus(status) == status >= ErrorStatus

\* A store that forgets the document it holds when the body does not parse.
StoreOrForget(self_data, body) ==
    LET parsed == XmlParse(body)
    IN  IF parsed.exc = "ExpatError"
        THEN [data |-> None, out |-> Returned(FALSE)]
        ELSE IF "weatherdata" \notin DOMAIN parsed.val
        THEN [data |-> self_data, out |-> Raised("KeyError")]
        ELSE [data |-> Some(parsed.val["weatherdata"]), out |-> Returned(TRUE)]

\* "self.data = xmltodict.parse(text)['weatherdata']" under
\* "except (ExpatError, IndexError)": the new self.data and the outcome.
StoreParsed(self_data, body) ==
    LET parsed == XmlParse(body)
    IN  IF parsed.exc = "ExpatError"
        THEN [data |-> self_data, out |-> Returned(FALSE)]
        ELSE IF "weatherdata" \notin DOMAIN parsed.val
        THEN [data |-> self_data, out |-> Raised("KeyError")]
        ELSE [data |-> Some(parsed.val["weatherdata"]), out |-> Returned(TRUE)]

\* fetching_data() when the transport ends as `transport` (a response, with
\* `status` and `body`, asyncio.TimeoutError or aiohttp.ClientError).
fetching_data(self_data, transport, status, body) ==
    IF transport # "response" THEN [data |-> self_data, out |-> Returned(FALSE)]
    ELSE IF BadStatus(status) THEN [data |-> self_data, out |-> Returned(FALSE)]
    ELSE StoreParsed(self_data, body)

-----------------------------------------------------------------------------
(* MetWeatherData.get_current_weather and get_forecast. *)

\* datetime.now(): the clock readings of the model.
NowSet == {parse_datetime(k) : k \in Ticks}

get_current_weather(self_data, now) ==
    get_weather(self_data, now, DefaultMaxHour, FALSE)

\* now.replace(minute=0, ...) and now.replace(hour=12, minute=0, ...)
TopOfHour(now) == now - (now % HourSecs)
Noon(now) == now - (now % DaySecs) + 12 * HourSecs

\* "times = [now + timedelta(hours=k) for k in range(1, 25)]", or days 1..5.
ForecastTimes(now, hourly) ==
    IF hourly THEN [k \in 1..24 |-> TopOfHour(now) + k * HourSecs]
    ELSE [k \in 1..5 |-> Noon(now) + k * DaySecs]

get_forecast(self_data, now, hourly) ==
    IF self_data = None THEN Returned(<<>>)
    ELSE LET times == ForecastTimes(now, hourly)
             raising(each) == {k \in DOMAIN each : each[k].exc # NoExc}
         IN  CHOOSE out \in
                {IF raising(each) # {}
                 THEN Raised(each[CHOOSE k \in raising(each) :
                                    \A j \in raising(each) : k <= j].exc)
                 ELSE Returned([k \in DOMAIN each |-> each[k].val]) :
                    each \in {[k \in DOMAIN times |->
                                get_weather(self_data, times[k], DefaultMaxHour, hourly)]}}
                : TRUE

-----------------------------------------------------------------------------
(* The MetWeatherData instance: its state and its calls. *)

\* The tolerances get_weather is called with: its default and a tighter one.
MaxHourSet == {3, DefaultMaxHour}

\* The caller is sequential: it makes a call when the one before has returned and
\* its outcome has been taken.
Idle == [op |-> "idle"]

WeatherInit ==
    /\ served \in TimeListSet
    /\ data = None
    /\ lastGood = None
    /\ ret = Idle

WeatherIdle ==
    /\ served = <<>>
    /\ data = None
    /\ lastGood = None
    /\ ret = Idle

\* AirQualityData.__init__, for an instance that is not used.
AirIdle ==
    /\ aq_served = <<>>
    /\ aq_forecast = 0
    /\ aq_data = <<>>
    /\ aq_last = None
    /\ aq_out = <<>>
    /\ aq_ret = [op |-> "init", now |-> 0]

Init == WeatherInit /\ AirIdle

FetchingData(transport, status, body) ==
    LET r == fetching_data(data, transport, status, body)
    IN  /\ ret = Idle
        /\ data' = r.data
        /\ lastGood' = IF r.out.exc = NoExc /\ r.out.val
                       THEN Some([product |-> [time |-> body.time]])
                       ELSE lastGood
        /\ ret' = [op |-> "fetching_data", transport |-> transport,
                   status |-> status, kind |-> body.kind, root |-> body.root,
                   out |-> r.out]
        /\ UNCHANGED served
        /\ UNCHANGED avars

GetWeather(time, max_hour, hourly) ==
    /\ ret = Idle
    /\ ret' = [op |-> "get_weather", time |-> time, max_hour |-> max_hour,
               hourly |-> hourly, out |-> get_weather(data, time, max_hour, hourly)]
    /\ UNCHANGED <<served, data, lastGood>>
    /\ UNCHANGED avars

GetCurrentWeather(now) ==
    /\ ret = Idle
    /\ ret' = [op |-> "get_current_weather", time |-> now,
               out |-> get_current_weather(data, now)]
    /\ UNCHANGED <<served, data, lastGood>>
    /\ UNCHANGED avars

GetForecast(now, hourly) ==
    /\ ret = Idle
    /\ ret' = [op |-> "get_forecast", time |-> now, hourly |-> hourly,
               out |-> get_forecast(data, now, hourly)]
    /\ UNCHANGED <<served, data, lastGood>>
    /\ UNCHANGED avars

\* The caller takes the outcome of the call that returned.
Resume ==
    /\ ret # Idle
    /\ ret' = Idle
    /\ UNCHANGED <<served, data, lastGood>>
    /\ UNCHANGED avars

\* A transport failure carries no response: its status and body are not read.
NoResponse == [kind |-> "malformed", root |-> "", time |-> <<>>]

Next ==
    \/ \E body \in BodySet(served), status \in StatusSet :
          FetchingData("response", status, body)
    \/ \E transport \in TransportSet \ {"response"} :
          FetchingData(transport, 0, NoResponse)
    \/ \E time \in NowSet, max_hour \in MaxHourSet, hourly \in BOOLEAN :
          GetWeather(time, max_hour, hourly)
    \/ \E now \in NowSet : GetCurrentWeather(now)
    \/ \E now \in NowSet, hourly \in BOOLEAN : GetForecast(now, hourly)
    \/ Resume

Spec == Init /\ [][Next]_vars

-----------------------------------------------------------------------------
(* What the claims speak of, stated apart from the code's loop. *)

\* The <time> list of the stored document.
StoredTimes == data[1].product.time

IsGetWeather == ret.op = "get_weather"
Answered == IsGetWeather /\ ret.out.exc = NoExc /\ DOMAIN ret.out.val # {}

EndOf(e) == parse_datetime(e.to)
StartOf(e) == parse_datetime(e.from)
Distance(e, time) == Abs(EndOf(e) - time) + Abs(StartOf(e) - time)

\* The positions of the entries within the tolerance that have not ended.
Eligible(doc, time, max_hour) ==
    {i \in 1..Len(doc) :
        EndOf(doc[i]) >= time /\ Distance(doc[i], time) <= max_hour * HourSecs}

EntriesOf(ordered) == {ordered[i][2] : i \in 1..Len(ordered)}

\* C1: every interval get_weather places in its candidate list has valid_to >=
\* target and distance |valid_to - target| + |valid_from - target| <= max_hour *
\* 3600, the distance it is listed with; an interval that has ended is never
\* selected.
C1_CandidatesWithinTolerance ==
    (IsGetWeather /\ ret.out.exc = NoExc) =>
        \A i \in 1..Len(ret.out.ordered) :
            LET d == ret.out.ordered[i][1]
                e == ret.out.ordered[i][2]
            IN  /\ EndOf(e) >= ret.time
                /\ d = Distance(e, ret.time)
                /\ d <= ret.max_hour * HourSecs

\* A call that selected an interval while the document also holds one that has
\* ended, close enough to the target to be within the tolerance.
C1_Witness ==
    /\ IsGetWeather /\ ret.out.exc = NoExc
    /\ ret.out.ordered # <<>>
    /\ \E i \in 1..Len(StoredTimes) :
          /\ EndOf(StoredTimes[i]) < ret.time
          /\ Distance(StoredTimes[i], ret.time) <= ret.max_hour * HourSecs

\* C2: for the same document and target, the intervals selected with a tolerance
\* are among those selected with any larger tolerance.
C2_SelectionGrowsWithTolerance ==
    (IsGetWeather /\ ret.out.exc = NoExc) =>
        \A wider \in MaxHourSet :
            ret.max_hour <= wider =>
                EntriesOf(ret.out.ordered) \subseteq
                    EntriesOf(get_weather(data, ret.time, wider, ret.hourly).ordered)

\* A call with the tighter tolerance that selected something, where the default
\* tolerance selects strictly more.
C2_Witness ==
    /\ IsGetWeather /\ ret.out.exc = NoExc
    /\ ret.max_hour < DefaultMaxHour
    /\ ret.out.ordered # <<>>
    /\ EntriesOf(ret.out.ordered) #
          EntriesOf(get_weather(data, ret.time, DefaultMaxHour, ret.hourly).ordered)

\* The point-sampled fields: <<parameter, key of the snapshot>>.
PointFields(hourly) ==
    {<<"symbol", "condition">>, <<"pressure", "pressure">>,
     <<"humidity", "humidity">>, <<"windDirection", "wind_bearing">>}
    \cup (IF hourly
          THEN {<<"temperature", "temperature">>, <<"precipitation", "precipitation">>,
                <<"windSpeed", "wind_speed">>, <<"windGust", "wind_gust">>,
                <<"cloudiness", "cloudiness">>}
          ELSE {})

\* Among positions C, the one of smallest distance, the earliest of them on a tie.
Nearest(doc, C, time) ==
    CHOOSE i \in C :
        \A j \in C :
            \/ Distance(doc[i], time) < Distance(doc[j], time)
            \/ Distance(doc[i], time) = Distance(doc[j], time) /\ i <= j

\* The value of a field read from one entry alone.
ReadFrom(param, e) ==
    LET v == get_data(param, << <<0, e>> >>).val
    IN  IF param = "symbol" THEN CONDITIONS(v) ELSE v

NearestValue(doc, time, max_hour, param) ==
    LET C == {i \in Eligible(doc, time, max_hour) : param \in DOMAIN doc[i].location}
    IN  IF C = {} THEN None ELSE ReadFrom(param, doc[Nearest(doc, C, time)])

\* C7: each point-sampled field of a snapshot is read, apart from the other fields,
\* from the selected interval of smallest distance among those that define the
\* field, the first of the source list on a tie; an interval whose valid_to is the
\* target is a candidate.
C7_FieldFromNearestDefining ==
    Answered =>
        \A f \in PointFields(ret.hourly) :
            ret.out.val[f[2]] =
                NearestValue(StoredTimes, ret.time, ret.max_hour, f[1])

\* Two adjacent periods, the target on their common boundary: both are selected at
\* the same distance, in the order of the document, the first gives the
\* temperature and a field it lacks comes from the second.
C7_Witness ==
    /\ Answered /\ ret.hourly
    /\ Len(StoredTimes) = 2
    /\ EndOf(StoredTimes[1]) = ret.time /\ StartOf(StoredTimes[2]) = ret.time
    /\ StoredTimes[1].location = LocSpan /\ StoredTimes[2].location = LocWarm
    /\ Len(ret.out.ordered) = 2
    /\ ret.out.ordered[1][1] = ret.out.ordered[2][1]
    /\ ret.out.ordered[1][2] = StoredTimes[1]
    /\ ret.out.val.temperature = Some(-25)
    /\ ret.out.val.wind_speed = Some(180)

\* The positions of the entries of the target's calendar day.
OfDay(doc, time) ==
    {i \in 1..Len(doc) :
        \/ DateOf(StartOf(doc[i])) = DateOf(time)
        \/ DateOf(EndOf(doc[i])) = DateOf(time)}

\* The values of a field over the entries of the day that hold it, by position.
DayValue(doc, i, field, attr) == get_value(doc[i].location[field], attr).val
DayHolders(doc, time, field) ==
    {i \in OfDay(doc, time) : field \in DOMAIN doc[i].location}

MaxOver(doc, H, field, attr) ==
    IF H = {} THEN None
    ELSE Some(CHOOSE v \in {DayValue(doc, i, field, attr)[1] : i \in H} :
                \A i \in H : DayValue(doc, i, field, attr)[1] <= v)

MinOver(doc, H, field, attr) ==
    IF H = {} THEN None
    ELSE Some(CHOOSE v \in {DayValue(doc, i, field, attr)[1] : i \in H} :
                \A i \in H : DayValue(doc, i, field, attr)[1] >= v)

RECURSIVE SumOver(_, _, _, _)
SumOver(doc, H, field, attr) ==
    IF H = {} THEN 0
    ELSE LET i == CHOOSE j \in H : TRUE
         IN  DayValue(doc, i, field, attr)[1] + SumOver(doc, H \ {i}, field, attr)

\* Every entry of the day gives a number for each aggregated field it holds.
DayWellFormed(doc, time) ==
    \A f \in {<<"temperature", "@value">>, <<"precipitation", "@value">>,
              <<"windSpeed", "@mps">>, <<"windGust", "@mps">>} :
        \A i \in DayHolders(doc, time, f[1]) : DayValue(doc, i, f[1], f[2]) # None

\* C5 (as claimed): in daily mode temperature, templow, precipitation, wind_speed
\* and wind_gust are the max, min, sum, max and max over exactly the intervals whose
\* valid_from date or valid_to date is the target's day, whether or not they are
\* within the tolerance or have ended before the target.
C5_DailyOverWholeDay ==
    (Answered /\ ~ret.hourly /\ DayWellFormed(StoredTimes, ret.time)) =>
        LET doc == StoredTimes
            H(field) == DayHolders(doc, ret.time, field)
        IN  /\ ret.out.val.temperature =
                  MaxOver(doc, H("temperature"), "temperature", "@value")
            /\ ret.out.val.templow =
                  MinOver(doc, H("temperature"), "temperature", "@value")
            /\ ret.out.val.precipitation =
                  IF H("precipitation") = {} THEN None
                  ELSE Some(SumOver(doc, H("precipitation"), "precipitation", "@value"))
            /\ ret.out.val.wind_speed =
                  MaxOver(doc, H("windSpeed"), "windSpeed", "@mps")
            /\ ret.out.val.wind_gust =
                  MaxOver(doc, H("windGust"), "windGust", "@mps")

\* An entry holds temperature, precipitation, windSpeed or windGust with a missing
\* or non-numeric attribute.
Malformed(e) ==
    \E f \in {<<"temperature", "@value">>, <<"precipitation", "@value">>,
              <<"windSpeed", "@mps">>, <<"windGust", "@mps">>} :
        /\ f[1] \in DOMAIN e.location
        /\ ~IsNone(e.location[f[1]])
        /\ get_value(e.location[f[1]], f[2]).val = None

\* C6 (as claimed): when an interval carries a temperature, precipitation,
\* windSpeed or windGust entry with a missing or non-numeric attribute, get_weather
\* raises no exception, in hourly and in daily mode.
C6_SnapshotNeverRaises ==
    (/\ IsGetWeather
     /\ data # None
     /\ \E i \in 1..Len(StoredTimes) : Malformed(StoredTimes[i]))
        => ret.out.exc = NoExc

\* C4 (as claimed): fetching_data never raises, and returns True exactly when a
\* document with the weatherdata root came with a 2xx status.
C4_FetchCollapsesToBoolean ==
    ret.op = "fetching_data" =>
        /\ ret.out.exc = NoExc
        /\ ret.out.val =
              (/\ ret.transport = "response"
               /\ ret.status \in 200..299
               /\ ret.kind = "xml"
               /\ ret.root = "weatherdata")

\* C10: the stored document is that of the most recent fetch that returned True,
\* None before any; a fetch that fails and the calls that read leave it alone; and
\* with no document get_weather returns the empty snapshot and get_forecast the
\* empty list.
C10_DataIsLastGoodFetch ==
    /\ data = lastGood
    /\ (data = None /\ ret.op \in {"get_weather", "get_current_weather", "get_forecast"})
          => (ret.out.exc = NoExc /\ DOMAIN ret.out.val = {})

\* A fetch that failed after one that succeeded with the next issue.
C10_Witness ==
    /\ ret.op = "fetching_data"
    /\ ret.out.exc = NoExc /\ ~ret.out.val
    /\ data # None
    /\ StoredTimes # served
    /\ data = lastGood

-----------------------------------------------------------------------------
(* get_data and get_value called on their own. *)

ExtractLocations == {LocPoint, LocSpan, LocWarm, LocBad, LocNull, LocExtra}

\* Candidate lists as get_weather builds them: <<distance, time entry>>.
CandidateListSet ==
    SeqsUpTo({<<0, [from |-> 0, to |-> 0, location |-> loc]>> : loc \in ExtractLocations},
             MaxEntries)

ParamSet ==
    {"symbol", "temperature", "precipitation", "windSpeed", "windDirection",
     "cloudiness", "dewpointTemperature", "temperatureProbability"}

ElementSet ==
    {None} \cup UNION {{loc[f] : f \in DOMAIN loc} : loc \in ExtractLocations}
AttributeSet == {"@value", "@mps", "@deg", "@percent"}

GetData(param, entries) ==
    /\ ret = Idle
    /\ ret' = [op |-> "get_data", param |-> param, entries |-> entries,
               out |-> get_data(param, entries)]
    /\ UNCHANGED <<served, data, lastGood>>
    /\ UNCHANGED avars

GetValue(elem, value) ==
    /\ ret = Idle
    /\ ret' = [op |-> "get_value", elem |-> elem, value |-> value,
               out |-> get_value(elem, value)]
    /\ UNCHANGED <<served, data, lastGood>>
    /\ UNCHANGED avars

NextExtract ==
    \/ \E param \in ParamSet, entries \in CandidateListSet : GetData(param, entries)
    \/ \E elem \in ElementSet, value \in AttributeSet : GetValue(elem, value)
    \/ Resume

InitExtract == WeatherIdle /\ AirIdle

SpecExtract == InitExtract /\ [][NextExtract]_vars

\* C3 (as claimed): get_data and get_value never raise: for every field name and
\* candidate list, and every element and attribute, the call returns a value or
\* None.
C3_ExtractNeverRaises ==
    ret.op \in {"get_data", "get_value"} => ret.out.exc = NoExc

-----------------------------------------------------------------------------
(* AirQualityData. *)

CacheDays == 3600
\* "datetime.timedelta(3600)": the first argument of timedelta is days.
CachePeriod == CacheDays * DaySecs

AqTicks == 0..AqMaxTick
AqNowSet == {aq_parse_datetime(k) : k \in AqTicks}
AqValueSet == {None, Some(25)}

\* The entries of an air-quality forecast: an instant or one step of its grid, with
\* variables.AQI.value (in tenths) or without it.
AqPointStamps == {0, 1, 2}
AqPeriodEnds == {1, 2}

AqEntrySet ==
    {[from |-> k, to |-> k, aqi |-> v] : k \in AqPointStamps, v \in AqValueSet}
    \cup {[from |-> k - 1, to |-> k, aqi |-> v] : k \in AqPeriodEnds, v \in AqValueSet}

AqTimeListSet == SeqsUpTo(AqEntrySet, AqMaxEntries)

\* "if self._last_update is None or now - self._last_update > timedelta(3600)"
NeedsFetch(last_update, now) ==
    \/ last_update = None
    \/ now - last_update[1] > CachePeriod

\* "if forecast_time >= valid_to: continue"
AqPassed(forecast_time, valid_to) == forecast_time >= valid_to

\* The comparison that lets an entry at the same distance replace the best so
\* far.
AqCloserOrEqual(dist, min_dist) == dist <= min_dist

\* "if average_dist < min_dist"
AqCloser(dist, min_dist) == dist < min_dist

\* The loop over self._data["data"]["time"]: best is the position of the local
\* `data` in the list (0 for None) with `min_dist`.
RECURSIVE AqScan(_, _, _, _)
AqScan(list, i, forecast_time, best) ==
    IF i > Len(list) THEN best
    ELSE LET valid_from == aq_parse_datetime(list[i].from)
             valid_to == aq_parse_datetime(list[i].to)
             dist == average_dist(valid_from, valid_to, forecast_time)
         IN  AqScan(list, i + 1, forecast_time,
                    IF ~AqPassed(forecast_time, valid_to) /\ AqCloser(dist, best.min_dist)
                    THEN [pos |-> i, min_dist |-> dist]
                    ELSE best)

\* "if state < 2 ... elif state < 3 ... else", on tenths.
Level(state) ==
    IF state < 20 THEN "low" ELSE IF state < 30 THEN "medium" ELSE "high"

\* update() from "try: forecast_time = ..." on: the values published in self.data
\* (aqi and level of them), the position selected and the outcome.  A selected
\* entry without an AQI value stores aqi = None and then raises on "state < 2".
Publish(self_data, json, forecast_time) ==
    IF "data" \notin DOMAIN json
    THEN [data |-> self_data, selected |-> 0, out |-> Raised("KeyError")]
    ELSE
      LET list == json.data.time
          best == AqScan(list, 1, forecast_time,
                         [pos |-> 0, min_dist |-> AqInitialHours * HourSecs])
      IN  IF best.pos = 0
          THEN [data |-> self_data, selected |-> 0, out |-> Returned(FALSE)]
          ELSE IF list[best.pos].aqi = None
          THEN [data |-> ("aqi" :> None) @@ self_data, selected |-> best.pos,
                out |-> Raised("TypeError")]
          ELSE [data |-> [aqi |-> list[best.pos].aqi,
                          level |-> Level(list[best.pos].aqi[1])],
                selected |-> best.pos, out |-> Returned(TRUE)]

\* update() at clock reading `now`, the transport ending as `transport` (with
\* `status`, and a body that resp.json() returns or rejects with
\* aiohttp.ContentTypeError, a ClientError) if a request is made.
update(self, now, transport, status, is_json, body) ==
    LET forecast_time == now + self.forecast * HourSecs
        stay == [json |-> self.json, data |-> self.data, selected |-> 0]
    IN  IF ~NeedsFetch(self.last_update, now)
        THEN Publish(self.data, self.json, forecast_time)
                @@ [json |-> self.json, requested |-> FALSE, fetched |-> FALSE]
        ELSE IF transport # "response" \/ BadStatus(status) \/ ~is_json
        THEN stay @@ [requested |-> TRUE, fetched |-> FALSE, out |-> Returned(FALSE)]
        ELSE Publish(self.data, body, forecast_time)
                @@ [json |-> body, requested |-> TRUE, fetched |-> TRUE]

\* self._forecast, in hours.
AqForecastSet == {0, 8}

AqInit ==
    /\ aq_served \in AqTimeListSet
    /\ aq_forecast \in AqForecastSet
    /\ aq_data = <<>>
    /\ aq_last = None
    /\ aq_out = <<>>
    /\ aq_ret = [op |-> "init", now |-> 0]

\* The clock does not run backwards between calls.
AqUpdate(now, transport, status, is_json) ==
    LET self == [json |-> aq_data, last_update |-> aq_last, data |-> aq_out,
                 forecast |-> aq_forecast]
        r == update(self, now, transport, status, is_json,
                    [data |-> [time |-> aq_served]])
    IN  /\ now >= aq_ret.now
        /\ aq_data' = r.json
        /\ aq_out' = r.data
        /\ aq_ret' = [op |-> "update", now |-> now, requested |-> r.requested,
                      fetched |-> r.fetched, selected |-> r.selected, out |-> r.out]
        /\ UNCHANGED <<aq_served, aq_forecast, aq_last>>
        /\ UNCHANGED wvars

AqNext ==
    \/ \E now \in AqNowSet, status \in StatusSet, is_json \in BOOLEAN :
          AqUpdate(now, "response", status, is_json)
    \/ \E now \in AqNowSet, transport \in TransportSet \ {"response"} :
          AqUpdate(now, transport, 0, FALSE)

InitAir == WeatherIdle /\ AqInit

SpecAir == InitAir /\ [][AqNext]_vars

-----------------------------------------------------------------------------
(* Claims about AirQualityData.update. *)

AqAnswered == aq_ret.op = "update" /\ aq_ret.fetched

AqTarget == aq_ret.now + aq_forecast * HourSecs
AqEntries == DOMAIN aq_served
AqEndOf(i) == aq_parse_datetime(aq_served[i].to)
AqDistance(i) ==
    Abs(AqEndOf(i) - AqTarget) + Abs(aq_parse_datetime(aq_served[i].from) - AqTarget)
AqFuture == {i \in AqEntries : AqEndOf(i) > AqTarget}
AqWithinDay == {i \in AqFuture : AqDistance(i) < 24 * 3600}

\* C8 (as claimed): update selects the entry of minimum distance among those with
\* valid_to > target, whatever that distance is: whenever some entry has
\* valid_to > target one is selected, and no match is reported only when none has.
C8_SelectsWheneverFuture ==
    AqAnswered =>
        IF AqFuture = {}
        THEN aq_ret.selected = 0 /\ aq_ret.out = Returned(FALSE)
        ELSE /\ aq_ret.selected \in AqFuture
             /\ \A j \in AqFuture : AqDistance(aq_ret.selected) <= AqDistance(j)

\* C8 (amended): update selects the first-listed entry of minimum distance among
\* those with valid_to > target and distance strictly below 24h, and reports no
\* match exactly when there is no such entry.
C8_SelectsNearestWithinDay ==
    AqAnswered =>
        IF AqWithinDay = {}
        THEN aq_ret.selected = 0 /\ aq_ret.out = Returned(FALSE)
        ELSE /\ aq_ret.selected \in AqWithinDay
             /\ \A j \in AqWithinDay :
                    \/ AqDistance(aq_ret.selected) < AqDistance(j)
                    \/ AqDistance(aq_ret.selected) = AqDistance(j) /\ aq_ret.selected <= j

\* An entry is selected while an earlier-listed entry that has not ended lies 24h
\* or more from the target.
C8_Witness ==
    /\ AqAnswered
    /\ aq_ret.out = Returned(TRUE)
    /\ aq_ret.selected = 2
    /\ 1 \in AqFuture \ AqWithinDay

\* C9 (as claimed): after a call of update that fetched a document and returned
\* True, the next call within the cache period issues no request.
C9_NoRefetchWithinCachePeriod ==
    [][(/\ aq_ret.op = "update" /\ aq_ret.fetched /\ aq_ret.out = Returned(TRUE)
        /\ aq_ret'.op = "update"
        /\ aq_ret'.now - aq_ret.now <= CachePeriod)
          => ~aq_ret'.requested]_vars

====
